---------------------------- MODULE Spec2Model ----------------------------
(***************************************************************************)
(* A model of file_size.py: the depth-bounded walk over a directory tree   *)
(* (iter_pdf_files), the collection, ordering and numbering of the records *)
(* (scan_pdfs), the two-sheet report (export_to_excel) and the App         *)
(* handlers that call them (run_scan, export_excel).                       *)
(*                                                                         *)
(* Names are sequences of one-character strings, so that str.lower(),      *)
(* str.endswith() and the comparison of strings are computed, not assumed. *)
(* A path is a record [abs, parts]: whether it is absolute, and its        *)
(* components.                                                             *)
(***************************************************************************)
EXTENDS Integers, Sequences, FiniteSets, TLC

(***************************************************************************)
(* Characters and strings                                                  *)
(***************************************************************************)
UpperChars == <<"A","B","C","D","E","F","G","H","I","J","K","L","M",
                "N","O","P","Q","R","S","T","U","V","W","X","Y","Z">>
LowerChars == <<"a","b","c","d","e","f","g","h","i","j","k","l","m",
                "n","o","p","q","r","s","t","u","v","w","x","y","z">>

IsUpper(c) == \E i \in 1..26 : UpperChars[i] = c
IsLower(c) == \E i \in 1..26 : LowerChars[i] = c
PosIn(s, c) == CHOOSE i \in 1..Len(s) : s[i] = c

\* str.lower() on one character
LowerChar(c) == IF IsUpper(c) THEN LowerChars[PosIn(UpperChars, c)] ELSE c

\* str.lower()
StrLower(s) == [i \in 1..Len(s) |-> LowerChar(s[i])]

\* the code point of a character (the ones the names of the model use)
CodePoint(c) ==
    IF IsUpper(c) THEN 64 + PosIn(UpperChars, c)
    ELSE IF IsLower(c) THEN 96 + PosIn(LowerChars, c)
    ELSE IF c = "." THEN 46
    ELSE 47

\* str.endswith(suffix)
EndsWith(s, suffix) ==
    /\ Len(s) >= Len(suffix)
    /\ \A i \in 1..Len(suffix) : s[Len(s) - Len(suffix) + i] = suffix[i]

\* Python's s < t on strings: by code point, a proper prefix is smaller
StrLess(s, t) ==
    \E k \in 1..(Len(t)) :
        /\ \A i \in 1..(k - 1) : i <= Len(s) /\ s[i] = t[i]
        /\ \/ k = Len(s) + 1
           \/ k <= Len(s) /\ CodePoint(s[k]) < CodePoint(t[k])

DotPdf == <<".", "p", "d", "f">>

\* entry.name.lower().endswith(".pdf")
IsPdfName(name) == EndsWith(StrLower(name), DotPdf)

(***************************************************************************)
(* The file system: a fixed universe of entries.  Node 1 is "/".           *)
(***************************************************************************)
Nsrv  == <<"s","r","v">>
Ndocs == <<"d","o","c","s">>
Nlnk  == <<"l","n","k">>
Nsub  == <<"s","u","b">>
Nalt  == <<"a","l","t">>
Ndeep == <<"d","e","e","p">>
Nloop == <<"l","o","o","p">>
Npeer == <<"p","e","e","r">>
Nup   == <<"u","p">>
Nnope == <<"n","o","p","e">>
Fa    == <<"a",".","p","d","f">>
Fn    == <<"n",".","t","x","t">>
FbUp  == <<"b",".","P","D","F">>
FBlo  == <<"B",".","p","d","f">>
Fc    == <<"c",".","p","d","f">>
Fk    == <<"k",".","p","d","f">>
Fe    == <<"e",".","p","d","f">>
Fl    == <<"l",".","p","d","f">>

MiB == 1024 * 1024

\* an entry: its name, the directory that holds it, what it is, and for a file
\* st_size; for a link, what it points to.  st_mtime is the node number.
E(name, parent, kind, size, target) ==
    [name |-> name, parent |-> parent, kind |-> kind, size |-> size, target |-> target]

FS == <<
    E(<<>>,  0,  "dir",  0, 0),             \*  1  /
    E(Nsrv,  1,  "dir",  0, 0),             \*  2  /srv            (the working directory)
    E(Ndocs, 2,  "dir",  0, 0),             \*  3  /srv/docs
    E(Nlnk,  1,  "link", 0, 3),             \*  4  /lnk -> /srv/docs
    E(Fa,    3,  "file", 10 * MiB, 0),      \*  5  /srv/docs/a.pdf
    E(Fn,    3,  "file", 99, 0),            \*  6  /srv/docs/n.txt
    E(Nsub,  3,  "dir",  0, 0),             \*  7  /srv/docs/sub
    E(FbUp,  7,  "file", 5 * MiB, 0),       \*  8  /srv/docs/sub/b.PDF
    E(Nloop, 7,  "link", 0, 13),            \*  9  /srv/docs/sub/loop -> /srv/docs/alt
    E(Ndeep, 7,  "dir",  0, 0),             \* 10  /srv/docs/sub/deep
    E(Fc,    10, "file", 65536, 0),         \* 11  /srv/docs/sub/deep/c.pdf
    E(Fk,    10, "dir",  0, 0),             \* 12  /srv/docs/sub/deep/k.pdf   (a directory)
    E(Nalt,  3,  "dir",  0, 0),             \* 13  /srv/docs/alt
    E(FBlo,  13, "file", 5 * MiB, 0),       \* 14  /srv/docs/alt/B.pdf
    E(Npeer, 13, "link", 0, 7),             \* 15  /srv/docs/alt/peer -> /srv/docs/sub
    E(Fe,    12, "file", 1, 0),             \* 16  /srv/docs/sub/deep/k.pdf/e.pdf
    E(Nup,   10, "link", 0, 3),             \* 17  /srv/docs/sub/deep/up -> /srv/docs
    E(Fl,    3,  "link", 0, 5)              \* 18  /srv/docs/l.pdf -> /srv/docs/a.pdf
>>

Nodes == 1..Len(FS)

\* no node: the nodes are numbered from 1
Missing == Len(<<>>)
FsRoot == CHOOSE n \in Nodes : FS[n].parent = Missing

RECURSIVE Ancestors(_)
\* the node and every directory above it
Ancestors(n) == IF n = FsRoot THEN {n} ELSE {n} \cup Ancestors(FS[n].parent)

\* the node and everything below it
Subtree(n) == {m \in Nodes : n \in Ancestors(m)}

RECURSIVE PartsOf(_)
\* the components of the real path of a node
PartsOf(n) == IF n = FsRoot THEN <<>> ELSE Append(PartsOf(FS[n].parent), FS[n].name)


(***************************************************************************)
(* Paths                                                                   *)
(***************************************************************************)
Path(abs, parts) == [abs |-> abs, parts |-> parts]

\* the entry called name in directory dir of the tree t, or Missing
Child(dir, name, t) ==
    IF \E c \in t : FS[c].parent = dir /\ FS[c].name = name /\ c # FsRoot
    THEN CHOOSE c \in t : FS[c].parent = dir /\ FS[c].name = name /\ c # FsRoot
    ELSE Missing

RECURSIVE WalkParts(_, _, _)
\* Follow the components from node n, through symbolic links, as the
\* operating system does; stop at the first component that does not exist.
\* The result is the node reached and the components left over.  (found holds
\* the entry the component names, when the walk can go on through it.)
WalkParts(n, rest, t) ==
    IF rest = <<>> THEN [node |-> n, rest |-> <<>>]
    ELSE LET found == {c \in {Child(n, Head(rest), t)} :
                         /\ FS[n].kind = "dir"
                         /\ c # Missing
                         /\ FS[c].kind = "link" => FS[c].target \in t}
         IN  IF found = {} THEN [node |-> n, rest |-> rest]
             ELSE CHOOSE w \in {WalkParts(IF FS[c].kind = "link" THEN FS[c].target
                                          ELSE c,
                                          Tail(rest), t) : c \in found} : TRUE

\* the working directory of the process is /srv
CwdNode == CHOOSE n \in Nodes : PartsOf(n) = <<Nsrv>>

\* Path.absolute(): a relative path is taken from the working directory
Absolute(p) == IF p.abs THEN p.parts ELSE PartsOf(CwdNode) \o p.parts

\* the node a path names (links followed), or Missing
Lookup(p, t) ==
    LET w == WalkParts(FsRoot, Absolute(p), t)
    IN  IF w.rest = <<>> THEN w.node ELSE Missing

\* Path.resolve(): absolute, links replaced by what they point to; the part
\* of the path that does not exist is kept as it is written
Resolve(p, t) ==
    LET w == WalkParts(FsRoot, Absolute(p), t)
    IN  Path(TRUE, PartsOf(w.node) \o w.rest)

\* Path.parent
Parent(p) == Path(p.abs, SubSeq(p.parts, 1, Len(p.parts) - 1))

\* Path.name
BaseName(p) == p.parts[Len(p.parts)]

IsPrefix(s, t) == Len(s) <= Len(t) /\ SubSeq(t, 1, Len(s)) = s

\* str(path): the sequence of its components, "/" first for an absolute path
\* and "." for the empty relative path
Slash == <<"/">>
Dot == <<".">>
Str(p) ==
    IF p.abs THEN <<Slash>> \o p.parts
    ELSE IF p.parts = <<>> THEN <<Dot>> ELSE p.parts

\* PurePath.relative_to succeeds when root is a prefix of child, component
\* by component, and both are absolute or both relative
RelativeToOk(child, root) == child.abs = root.abs /\ IsPrefix(root.parts, child.parts)
RelativeTo(child, root) ==
    Path(FALSE, SubSeq(child.parts, Len(root.parts) + 1, Len(child.parts)))

_safe_relpath(child, root) ==
    IF RelativeToOk(child, root) THEN Str(RelativeTo(child, root)) ELSE Str(child)

(***************************************************************************)
(* Rounding to three decimals, in thousandths of a megabyte.  The quotient *)
(* is rounded half to even, which is what round() gives for the sizes of   *)
(* the model (their quotients are exact binary fractions).                 *)
(***************************************************************************)
RoundHalfEven(num, den) ==
    LET q == num \div den
        r == num % den
    IN  IF 2 * r > den \/ (2 * r = den /\ q % 2 = 1) THEN q + 1 ELSE q

\* round(size_bytes / (1024 * 1024), 3), in thousandths.  The whole megabytes
\* are taken out first (they are a multiple of 1000 thousandths, which moves
\* no rounding), so that no product passes 2^31.
_human_mb(size_bytes) ==
    (size_bytes \div (1024 * 1024)) * 1000
        + RoundHalfEven((size_bytes % (1024 * 1024)) * 1000, 1024 * 1024)

\* time.strftime("%Y-%m-%d %H:%M:%S", time.localtime(st_mtime)): the text is
\* kept as the format and the time it renders
StrfTime(st_mtime) == [format |-> "%Y-%m-%d %H:%M:%S", localtime |-> st_mtime]

ScanResult(index, rel_dir, filename, size_bytes, size_mb, full_path, mtime) ==
    [index |-> index, rel_dir |-> rel_dir, filename |-> filename,
     size_bytes |-> size_bytes, size_mb |-> size_mb, full_path |-> full_path,
     mtime |-> mtime]


(***************************************************************************)
(* Bounds of the model                                                     *)
(***************************************************************************)
\* the depths tried are MinDepth..MaxDepth; the universe is three levels deep
MaxDepth == 3
\* how many entries may vanish while scans are running
MaxVanish == 1
\* how many entries refuse to be listed or typed (permission denied)
MaxDenied == 1
\* how many times scan_pdfs is called on the tree
MaxRuns == 2
\* how many times export_to_excel is called
MaxExports == 1

MinDepth == 0 - 2

(***************************************************************************)
(* The inputs tried                                                        *)
(***************************************************************************)
\* the trees tried: the universe without the subtrees of a set of entries
Shapes == {{}, {7}, {13}, {10}, {12}, {9, 15, 17, 18}, {8}, {5, 6}}
Trees == {Nodes \ UNION {Subtree(n) : n \in P} : P \in Shapes}

DocsPath == Path(TRUE, <<Nsrv, Ndocs>>)
ValidRoots == {DocsPath,                          \* resolved
               Path(FALSE, <<Ndocs>>),            \* relative to the working directory
               Path(TRUE, <<Nlnk>>)}              \* through a symbolic link
InvalidRoots == {Path(TRUE, <<Nsrv, Nnope>>),     \* does not exist
                 Path(TRUE, <<Nsrv, Ndocs, Fa>>)} \* a file
RootArgs == ValidRoots \cup InvalidRoots
Depths == MinDepth..MaxDepth

Dirs == {n \in Nodes : FS[n].kind = "dir"}

VARIABLES
    tree,       \* the entries that exist
    noList,     \* directories whose listing is denied
    noType,     \* entries whose type cannot be read (permission denied)
    vanished,   \* how many entries have vanished
    rootArg,    \* scan_pdfs: the root the caller passed
    depthArg,   \* scan_pdfs: the depth the caller passed
    root,       \* iter_pdf_files: root, after root.resolve()
    depth,      \* iter_pdf_files: depth, after the clamp
    stack,      \* iter_pdf_files: the work stack
    results,    \* scan_pdfs: results
    pc,         \* "idle", "walking", "done" (returned) or "raised"
    err,        \* the exception that left scan_pdfs
    run,        \* how many scans were started
    prev,       \* the list the scan before this one returned
    validAtCall,\* whether the root was a directory when the scan was called
    listed,     \* per node, how often this scan listed it
    listedVia,  \* the folder paths listed that do not name the folder itself
    failedDirs, \* the folders whose listing failed in this scan
    dropped     \* the paths whose stat failed in this scan

VARIABLES
    xpc,        \* export_to_excel: "idle", "saving", "saved" or "failed"
    xargs,      \* export_to_excel: the arguments of the call
    wb,         \* export_to_excel: the workbook built in memory
    disk,       \* what the target path holds
    diskBefore, \* what the target path held when export_to_excel was called
    xerr,       \* the exception that left export_to_excel
    exports     \* how many times export_to_excel was called

VARIABLES
    root_dir,   \* App.root_dir: the text of the directory field
    depthVar,   \* App.depth: the value of the depth field
    _results,   \* App._results
    scanOf,     \* the root and depth given to the scan that produced _results
    msg,        \* the last message box or status line shown
    handler,    \* the App handler that is running, or "none"
    clicked     \* the button clicked last (for a scan, with the directory field)

exportVars == <<xpc, xargs, wb, disk, diskBefore, xerr, exports>>
appVars == <<root_dir, depthVar, _results, scanOf, msg, handler, clicked>>

scanVars == <<tree, noList, noType, vanished, rootArg, depthArg, root, depth,
              stack, results, pc, err, run, prev, validAtCall, listed,
              listedVia, failedDirs, dropped>>

(***************************************************************************)
(* iter_pdf_files                                                          *)
(***************************************************************************)
Entries(n, t) == {c \in t : FS[c].parent = n /\ c # FsRoot}

\* entry.is_file(follow_symlinks=False)
EntryIsFile(e, t) == FS[e].kind = "file"

\* (a variant that follows links: entry.is_dir())
EntryIsDirFollowing(e, t) ==
    \/ FS[e].kind = "dir"
    \/ FS[e].kind = "link" /\ FS[e].target \in t /\ FS[FS[e].target].kind = "dir"

\* entry.is_dir(follow_symlinks=False)
EntryIsDir(e, t) == FS[e].kind = "dir"

\* depth < 0 -> 0
ClampDepth(d) == IF d < 0 THEN 0 ELSE d

\* (a variant that descends one level too far)
DescendOneMore(d, maxDepth) == d <= maxDepth

\* whether a directory found at level d is queued
Descend(d, maxDepth) == d < maxDepth

\* What the body of the inner try does with one entry of a folder at level d.
Classify(e, d, maxDepth, t) ==
    IF e \in noType THEN "Ignore"                 \* PermissionError: continue
    ELSE IF EntryIsFile(e, t)
         THEN IF IsPdfName(FS[e].name) THEN "MatchingFile" ELSE "Ignore"
    ELSE IF EntryIsDir(e, t)
         THEN IF Descend(d, maxDepth) THEN "DescendableDirectory" ELSE "Ignore"
    ELSE "Ignore"

\* os.scandir(folder): what opening the listing gives
ListingOutcome(folder, t) ==
    LET n == Lookup(folder, t)
    IN  IF n = Missing THEN "FileNotFoundError"
        ELSE IF FS[n].kind # "dir" THEN "NotADirectoryError"
        ELSE IF n \in noList THEN "PermissionError"
        ELSE "ok"

\* the outer except clause: which failures of the listing are skipped
ListingCaught(exc) == exc = "PermissionError"

\* entry.path
EntryPath(folder, e) == Path(folder.abs, Append(folder.parts, FS[e].name))

RECURSIVE SeqsOf(_)
\* every order in which a listing may hand back the entries
SeqsOf(S) ==
    IF S = {} THEN {<<>>}
    ELSE UNION {{<<x>> \o s : s \in SeqsOf(S \ {x})} : x \in S}

(***************************************************************************)
(* scan_pdfs                                                               *)
(***************************************************************************)
\* the record scan_pdfs appends for path p, which stat found
NewRecord(idx, p, rootA, t) ==
    LET size_b == FS[Lookup(p, t)].size
        rel == _safe_relpath(Parent(p), rootA)
    IN  ScanResult(idx, IF rel # <<Dot>> THEN rel ELSE <<>>, BaseName(p),
                   size_b, _human_mb(size_b), Str(p), StrfTime(Lookup(p, t)))

RECURSIVE Collect(_, _, _, _)
\* the body of the for loop, for the paths the generator yields in turn: a
\* path whose stat fails is skipped
Collect(paths, res, rootA, t) ==
    IF paths = <<>> THEN res
    ELSE IF Lookup(Head(paths), t) = Missing
         THEN Collect(Tail(paths), res, rootA, t)
         ELSE Collect(Tail(paths),
                      Append(res, NewRecord(Len(res) + 1, Head(paths), rootA, t)),
                      rootA, t)

\* the sort key (-r.size_bytes, r.filename.lower()), compared
KeyLess(a, b) ==
    \/ a.size_bytes > b.size_bytes
    \/ /\ a.size_bytes = b.size_bytes
       /\ StrLess(StrLower(a.filename), StrLower(b.filename))

\* x put after every element that is not greater than it
InsertStable(sorted, x) ==
    LET later == {i \in 1..Len(sorted) : KeyLess(x, sorted[i])}
        k == IF later = {} THEN Len(sorted) + 1
             ELSE CHOOSE i \in later : \A j \in later : i <= j
    IN  SubSeq(sorted, 1, k - 1) \o <<x>> \o SubSeq(sorted, k, Len(sorted))

RECURSIVE SortFrom(_, _)
\* insertion of the elements of rest, in their order, into sorted (the
\* one-element set holds the list after each insertion)
SortFrom(sorted, rest) ==
    IF rest = <<>> THEN sorted
    ELSE CHOOSE out \in {SortFrom(s, Tail(rest)) :
                            s \in {InsertStable(sorted, Head(rest))}} : TRUE

\* results.sort(key=...): list.sort is stable
SortResults(rs) == SortFrom(<<>>, rs)

\* (a variant that keeps the numbers given while collecting)
KeepNumbers(rs) == rs

\* for i, r in enumerate(results, start=1): r.index = i
Renumber(rs) == [i \in 1..Len(rs) |-> [rs[i] EXCEPT !.index = i]]


(***************************************************************************)
(* The steps of a scan: the call, one pass of "while stack" per step, and  *)
(* the sort, the renumbering and the return with the pass that empties the *)
(* stack.                                                                  *)
(***************************************************************************)
NoCounts == [n \in Nodes |-> 0]

\* scan_pdfs(rootA, depthA) up to the first pass of the loop
StartScan(rootA, depthA) ==
    /\ rootArg' = rootA
    /\ depthArg' = depthA
    /\ root' = Resolve(rootA, tree)
    /\ depth' = ClampDepth(depthA)
    /\ stack' = <<[path |-> Resolve(rootA, tree), d |-> 0]>>
    /\ results' = <<>>
    /\ pc' = "walking"
    /\ err' = "none"
    /\ run' = run + 1
    /\ prev' = results
    /\ validAtCall' = (ListingOutcome(rootA, tree) \in {"ok", "PermissionError"})
    /\ listed' = NoCounts
    /\ listedVia' = {}
    /\ failedDirs' = {}
    /\ dropped' = {}
    /\ UNCHANGED <<tree, noList, noType, vanished>>

Top == stack[Len(stack)]
Popped == SubSeq(stack, 1, Len(stack) - 1)

\* the end of the loop: sort, renumber, return
Finish(stack1, res1) ==
    /\ stack' = stack1
    /\ IF stack1 = <<>>
       THEN results' = Renumber(SortResults(res1)) /\ pc' = "done"
       ELSE results' = res1 /\ pc' = "walking"

\* One pass whose listing succeeds.  The listing hands back the entries in
\* any order; what the pass does depends on the order of the directories it
\* queues and on the order of the files it yields, so these two orders are
\* what is chosen.  A file may vanish between the listing and its stat.
ListOk ==
    /\ pc = "walking" /\ stack # <<>>
    /\ ListingOutcome(Top.path, tree) = "ok"
    /\ LET n == Lookup(Top.path, tree)
           matching == {e \in Entries(n, tree) :
                          Classify(e, Top.d, depth, tree) = "MatchingFile"}
           descendable == {e \in Entries(n, tree) :
                          Classify(e, Top.d, depth, tree) = "DescendableDirectory"}
       IN  \E dirs \in SeqsOf(descendable), files \in SeqsOf(matching) :
           \E lost \in SUBSET matching :
             /\ vanished + Cardinality(lost) <= MaxVanish
             /\ LET pushes == [i \in 1..Len(dirs) |->
                                 [path |-> EntryPath(Top.path, dirs[i]), d |-> Top.d + 1]]
                    yields == [i \in 1..Len(files) |-> EntryPath(Top.path, files[i])]
                IN  /\ tree' = tree \ lost
                    /\ vanished' = vanished + Cardinality(lost)
                    \* collected: results after the for loop took these yields
                    /\ \E collected \in {Collect(yields, results, rootArg, tree \ lost)} :
                          Finish(Popped \o pushes, collected)
                    /\ dropped' = dropped \cup
                          {yields[i] : i \in {j \in 1..Len(files) : files[j] \in lost}}
                    /\ listed' = [listed EXCEPT ![n] = @ + 1]
                    /\ listedVia' = IF PartsOf(n) = Top.path.parts THEN listedVia
                                    ELSE listedVia \cup {Top.path}
    /\ UNCHANGED <<noList, noType, rootArg, depthArg, root, depth, err, run, prev,
                   validAtCall, failedDirs>>
    /\ UNCHANGED <<exportVars, appVars>>

\* One pass whose listing fails with an exception the generator catches.
ListSkipped ==
    /\ pc = "walking" /\ stack # <<>>
    /\ ListingOutcome(Top.path, tree) # "ok"
    /\ ListingCaught(ListingOutcome(Top.path, tree))
    /\ Finish(Popped, results)
    /\ failedDirs' = failedDirs \cup {Top.path}
    /\ UNCHANGED <<tree, noList, noType, vanished, rootArg, depthArg, root, depth,
                   err, run, prev, validAtCall, listed, listedVia, dropped>>
    /\ UNCHANGED <<exportVars, appVars>>

\* One pass whose listing fails with an exception nothing catches: it leaves
\* the generator and scan_pdfs.
ListRaised ==
    /\ pc = "walking" /\ stack # <<>>
    /\ ListingOutcome(Top.path, tree) # "ok"
    /\ ~ListingCaught(ListingOutcome(Top.path, tree))
    /\ stack' = Popped
    /\ pc' = "raised"
    /\ err' = ListingOutcome(Top.path, tree)
    /\ failedDirs' = failedDirs \cup {Top.path}
    /\ UNCHANGED <<tree, noList, noType, vanished, rootArg, depthArg, root, depth,
                   results, run, prev, validAtCall, listed, listedVia, dropped>>
    /\ UNCHANGED <<exportVars, appVars>>

\* Another process removes a directory that is queued, with what it holds.
Vanish ==
    /\ pc = "walking"
    /\ vanished < MaxVanish
    /\ \E i \in 1..Len(stack) :
         LET n == Lookup(stack[i].path, tree)
         IN  /\ n # Missing
             /\ FS[n].kind = "dir"
             /\ tree' = tree \ Subtree(n)
    /\ vanished' = vanished + 1
    /\ UNCHANGED <<noList, noType, rootArg, depthArg, root, depth, stack, results,
                   pc, err, run, prev, validAtCall, listed, listedVia, failedDirs,
                   dropped>>
    /\ UNCHANGED <<exportVars, appVars>>

\* a caller calls scan_pdfs(rootA, depthA)
ScanCallWith(rootA, depthA) ==
    /\ handler = "none"
    /\ pc \in {"idle", "done"}
    /\ run < MaxRuns
    /\ StartScan(rootA, depthA)
    /\ UNCHANGED <<exportVars, appVars>>

\* scan_pdfs(rootArg, depthArg), the first time or again with the same
\* arguments
ScanCall == ScanCallWith(rootArg, depthArg)

\* scan_pdfs called on a root that is no directory
ScanCallInvalid == \E r \in InvalidRoots : ScanCallWith(r, depthArg)

(***************************************************************************)
(* export_to_excel                                                         *)
(***************************************************************************)
\* results[:20]
TopN == 20

RECURSIVE SumSizes(_)
\* sum(r.size_bytes for r in results)
SumSizes(rs) == IF rs = <<>> THEN 0 ELSE Head(rs).size_bytes + SumSizes(Tail(rs))

\* the seven columns of the detail sheet (the labels are given in English)
DetailHeader ==
    <<"index", "rel_dir", "filename", "size_bytes", "size_mb", "mtime", "full_path">>

DetailRow(r) ==
    <<r.index, r.rel_dir, r.filename, r.size_bytes, r.size_mb, r.mtime, r.full_path>>

\* for r in results: ws.append([...])
DetailRows(rs) == [i \in 1..Len(rs) |-> DetailRow(rs[i])]

\* (a variant that takes every record)
WholeList(rs) == rs

\* topn = results[:20]
TopSlice(rs) == SubSeq(rs, 1, IF Len(rs) < TopN THEN Len(rs) ELSE TopN)

\* for i, r in enumerate(topn, start=1): ws2.append([i, ...])
TopRows(topn) ==
    [i \in 1..Len(topn) |-> <<i, topn[i].filename, topn[i].size_mb, topn[i].rel_dir>>]

\* the rows of the summary sheet above the excerpt
SummaryHead(rootP, d, rs) ==
    << <<"root", Str(rootP)>>,
       <<"depth", d>>,
       <<"count", Len(rs)>>,
       <<"total_bytes", SumSizes(rs)>>,
       <<"total_mb", _human_mb(SumSizes(rs))>>,
       <<>>,
       <<"Top 20">>,
       <<"index", "filename", "size_mb", "rel_dir">> >>

\* the workbook export_to_excel builds before it saves it
Workbook(rootP, d, rs) ==
    << [title |-> "detail",
        rows |-> <<DetailHeader>> \o DetailRows(rs),
        freeze_panes |-> "A2",
        auto_filter |-> "A1:G1"],
       [title |-> "summary",
        rows |-> SummaryHead(rootP, d, rs) \o TopRows(TopSlice(rs)),
        freeze_panes |-> "",
        auto_filter |-> ""] >>

\* what a path may hold: nothing, or a file with the sheets written so far,
\* complete once the archive was closed
NoFile == [exists |-> FALSE, complete |-> FALSE, sheets |-> <<>>]
OldFile == [exists |-> TRUE, complete |-> TRUE, sheets |-> <<[title |-> "older report"]>>]
Truncated == [exists |-> TRUE, complete |-> FALSE, sheets |-> <<>>]

NoArgs == [root |-> Path(TRUE, <<>>), depth |-> 0, results |-> <<>>]

\* export_to_excel(out_path, rootP, d, rs) up to wb.save(out_path)
ExportStart(rootP, d, rs) ==
    /\ xargs' = [root |-> rootP, depth |-> d, results |-> rs]
    /\ wb' = Workbook(rootP, d, rs)
    /\ diskBefore' = disk
    /\ xpc' = "built"
    /\ xerr' = "none"
    /\ exports' = exports + 1
    /\ UNCHANGED disk

\* wb.save(out_path): the target cannot be opened for writing (it is locked,
\* or the path is invalid)
SaveOpenFails ==
    /\ xpc = "built"
    /\ xpc' = "failed"
    /\ xerr' = "PermissionError"
    /\ UNCHANGED <<xargs, wb, disk, diskBefore, exports>>
    /\ UNCHANGED <<scanVars, appVars>>

\* wb.save(out_path): the target is opened for writing, which empties it
SaveOpen ==
    /\ xpc = "built"
    /\ xpc' = "writing"
    /\ disk' = Truncated
    /\ UNCHANGED <<xargs, wb, diskBefore, xerr, exports>>
    /\ UNCHANGED <<scanVars, appVars>>

\* wb.save(out_path): the next sheet is written to the target
SaveWrite ==
    /\ xpc = "writing"
    /\ Len(disk.sheets) < Len(wb)
    /\ disk' = [disk EXCEPT !.sheets = Append(@, wb[Len(disk.sheets) + 1])]
    /\ UNCHANGED <<xpc, xargs, wb, diskBefore, xerr, exports>>
    /\ UNCHANGED <<scanVars, appVars>>

\* wb.save(out_path): a write fails (the disk is full); the exception leaves
\* export_to_excel, which has no handler and removes nothing
SaveWriteFails ==
    /\ xpc = "writing"
    /\ xpc' = "failed"
    /\ xerr' = "OSError"
    /\ UNCHANGED <<xargs, wb, disk, diskBefore, exports>>
    /\ UNCHANGED <<scanVars, appVars>>

\* wb.save(out_path): everything is written and the file is closed
SaveClose ==
    /\ xpc = "writing"
    /\ Len(disk.sheets) = Len(wb)
    /\ disk' = [disk EXCEPT !.complete = TRUE]
    /\ xpc' = "saved"
    /\ UNCHANGED <<xargs, wb, diskBefore, xerr, exports>>
    /\ UNCHANGED <<scanVars, appVars>>

\* a caller calls export_to_excel with the arguments xargs, the first time or
\* again
ExportCall ==
    /\ handler = "none"
    /\ xpc \in {"idle", "saved", "failed"}
    /\ exports < MaxExports
    /\ ExportStart(xargs.root, xargs.depth, xargs.results)
    /\ UNCHANGED <<scanVars, appVars>>

(***************************************************************************)
(* App                                                                     *)
(***************************************************************************)
\* self.depth = tk.IntVar(value=2)
DefaultDepth == 2

\* The text of the directory field: whether blanks surround it, and what is
\* between them: nothing (<<>>) or one path (<<path>>).
FieldText(pad, body) == [pad |-> pad, body |-> body]

\* str.strip()
Strip(text) == text.body

\* Path(text): Path("") is the empty relative path
PathOf(body) == IF body = <<>> THEN Path(FALSE, <<>>) ELSE body[1]

\* (a variant that leaves out is_dir())
ExistsOnly(p, t) == Lookup(p, t) # Missing

\* root_path.exists() and root_path.is_dir()
ExistsAndIsDir(p, t) == Lookup(p, t) # Missing /\ FS[Lookup(p, t)].kind = "dir"

\* no handler is running and no call is in progress
Quiet == handler = "none" /\ pc # "walking" /\ xpc \notin {"built", "writing"}

SubPath == Path(TRUE, <<Nsrv, Ndocs, Nsub>>)
FieldTexts == {FieldText(TRUE, <<>>),
               FieldText(TRUE, <<DocsPath>>),
               FieldText(FALSE, <<Path(TRUE, <<Nsrv, Ndocs, Fa>>)>>)}
AppDepths == {0, DefaultDepth}

\* the user types in the directory field
EditRootDir ==
    /\ Quiet
    /\ \E text \in FieldTexts : root_dir' = text
    /\ UNCHANGED <<depthVar, _results, scanOf, msg, handler, clicked>>
    /\ UNCHANGED <<scanVars, exportVars>>

\* pick_dir: the dialog gives "" (cancelled) or a directory
pick_dir ==
    /\ Quiet
    /\ \E d \in {<<>>, <<SubPath>>} :
         root_dir' = IF d # <<>> THEN FieldText(FALSE, d) ELSE root_dir
    /\ UNCHANGED <<depthVar, _results, scanOf, msg, handler, clicked>>
    /\ UNCHANGED <<scanVars, exportVars>>

\* the user changes the depth field
EditDepth ==
    /\ Quiet
    /\ \E d \in AppDepths : depthVar' = d
    /\ UNCHANGED <<root_dir, _results, scanOf, msg, handler, clicked>>
    /\ UNCHANGED <<scanVars, exportVars>>

\* the button clicked last and, for the scan button, the directory field at
\* that moment and whether it named a directory then
Click(op) ==
    [op |-> op,
     root_dir |-> IF op = "run_scan" THEN root_dir ELSE FieldText(FALSE, <<>>),
     named_dir |-> /\ op = "run_scan"
                   /\ Strip(root_dir) # <<>>
                   /\ ListingOutcome(PathOf(Strip(root_dir)), tree)
                         \in {"ok", "PermissionError"}]

\* run_scan: the directory field is empty
RunScanMissing ==
    /\ Quiet
    /\ Strip(root_dir) = <<>>
    /\ msg' = "showwarning: no directory"
    /\ clicked' = Click("run_scan")
    /\ UNCHANGED <<root_dir, depthVar, _results, scanOf, handler>>
    /\ UNCHANGED <<scanVars, exportVars>>

\* run_scan: the directory does not exist or is no directory
RunScanInvalid ==
    /\ Quiet
    /\ Strip(root_dir) # <<>>
    /\ ~ExistsAndIsDir(PathOf(Strip(root_dir)), tree)
    /\ msg' = "showerror: invalid directory"
    /\ clicked' = Click("run_scan")
    /\ UNCHANGED <<root_dir, depthVar, _results, scanOf, handler>>
    /\ UNCHANGED <<scanVars, exportVars>>

\* run_scan: up to the call of scan_pdfs(root_path, depth)
RunScanStart ==
    /\ Quiet
    /\ run < MaxRuns
    /\ Strip(root_dir) # <<>>
    /\ ExistsAndIsDir(PathOf(Strip(root_dir)), tree)
    /\ StartScan(PathOf(Strip(root_dir)), depthVar)
    /\ handler' = "run_scan"
    /\ msg' = "status: scanning"
    /\ clicked' = Click("run_scan")
    /\ UNCHANGED <<root_dir, depthVar, _results, scanOf>>
    /\ UNCHANGED exportVars

\* run_scan: scan_pdfs returned
RunScanReturn ==
    /\ handler = "run_scan"
    /\ pc = "done"
    /\ _results' = results
    /\ scanOf' = [root |-> rootArg, depth |-> depthArg]
    /\ msg' = "status: scan complete"
    /\ handler' = "none"
    /\ UNCHANGED <<root_dir, depthVar, clicked>>
    /\ UNCHANGED <<scanVars, exportVars>>

\* run_scan: scan_pdfs raised
RunScanFailed ==
    /\ handler = "run_scan"
    /\ pc = "raised"
    /\ msg' = "showerror: scan failed"
    /\ handler' = "none"
    /\ UNCHANGED <<root_dir, depthVar, _results, scanOf, clicked>>
    /\ UNCHANGED <<scanVars, exportVars>>

\* export_excel: there is nothing to export
ExportNoData ==
    /\ Quiet
    /\ _results = <<>>
    /\ msg' = "showinfo: no data"
    /\ clicked' = Click("export_excel")
    /\ UNCHANGED <<root_dir, depthVar, _results, scanOf, handler>>
    /\ UNCHANGED <<scanVars, exportVars>>

\* export_excel: the save dialog is cancelled
ExportCancelled ==
    /\ Quiet
    /\ _results # <<>>
    /\ clicked' = Click("export_excel")
    /\ UNCHANGED <<root_dir, depthVar, _results, scanOf, msg, handler>>
    /\ UNCHANGED <<scanVars, exportVars>>

\* export_excel: up to wb.save in export_to_excel(out_path, root,
\* int(self.depth.get()), self._results)
ExportExcelStart ==
    /\ Quiet
    /\ _results # <<>>
    /\ exports < MaxExports
    /\ ExportStart(Resolve(PathOf(Strip(root_dir)), tree), depthVar, _results)
    /\ handler' = "export_excel"
    /\ clicked' = Click("export_excel")
    /\ UNCHANGED <<root_dir, depthVar, _results, scanOf, msg>>
    /\ UNCHANGED scanVars

\* export_excel: export_to_excel returned
ExportExcelDone ==
    /\ handler = "export_excel"
    /\ xpc = "saved"
    /\ msg' = "showinfo: exported"
    /\ handler' = "none"
    /\ UNCHANGED <<root_dir, depthVar, _results, scanOf, clicked>>
    /\ UNCHANGED <<scanVars, exportVars>>

\* export_excel: export_to_excel raised
ExportExcelFailed ==
    /\ handler = "export_excel"
    /\ xpc = "failed"
    /\ msg' = "showerror: export failed"
    /\ handler' = "none"
    /\ UNCHANGED <<root_dir, depthVar, _results, scanOf, clicked>>
    /\ UNCHANGED <<scanVars, exportVars>>

(***************************************************************************)
(* The initial states                                                      *)
(***************************************************************************)
ScanIdle ==
    /\ vanished = 0
    /\ root = Path(TRUE, <<>>) /\ depth = 0
    /\ stack = <<>> /\ results = <<>>
    /\ pc = "idle" /\ err = "none"
    /\ run = 0 /\ prev = <<>>
    /\ validAtCall = FALSE
    /\ listed = NoCounts /\ listedVia = {} /\ failedDirs = {} /\ dropped = {}

ExportIdle ==
    /\ xpc = "idle" /\ xargs = NoArgs /\ wb = <<>>
    /\ disk = NoFile /\ diskBefore = NoFile /\ xerr = "none" /\ exports = 0

\* App.__init__
AppIdle ==
    /\ root_dir = FieldText(FALSE, <<>>) /\ depthVar = DefaultDepth
    /\ _results = <<>> /\ scanOf = [root |-> Path(TRUE, <<>>), depth |-> 0]
    /\ msg = "none" /\ handler = "none"
    /\ clicked = [op |-> "none", root_dir |-> FieldText(FALSE, <<>>),
                  named_dir |-> FALSE]

\* scan_pdfs called on a tree, once and again
Init ==
    /\ tree \in Trees
    /\ noList \in SUBSET (Dirs \ {FsRoot, CwdNode})
    /\ noType \in SUBSET {7, 8}
    /\ Cardinality(noList) + Cardinality(noType) <= MaxDenied
    /\ rootArg \in RootArgs
    /\ depthArg \in Depths
    /\ ScanIdle /\ ExportIdle /\ AppIdle

vars == <<scanVars, exportVars, appVars>>

Next == ScanCall \/ ListOk \/ ListSkipped \/ ListRaised \/ Vanish

Spec == Init /\ [][Next]_vars

\* The scans of the whole universe, with its links that point up and across:
\* from the root as it is and through the link to it, the shallowest and the
\* deepest, with every listing allowed or the one of sub denied.
LiveInit ==
    /\ Init
    /\ tree = Nodes
    /\ rootArg \in {DocsPath, Path(TRUE, <<Nlnk>>)}
    /\ depthArg \in {0, MaxDepth}
    /\ noList \in {{}, {7}}
    /\ noType = {}

\* The loop of the generator runs on once entered; nothing obliges another
\* process to remove a directory, or a caller to call.
LiveSpec == LiveInit /\ [][Next]_vars /\ WF_vars(ListOk \/ ListSkipped \/ ListRaised)

(***************************************************************************)
(* export_to_excel called with record lists of every length up to          *)
(* MaxExportLen, on a target that exists or not                            *)
(***************************************************************************)
MaxExportLen == 22

\* the i-th of n records, as scan_pdfs numbers and orders them (flip = 0), or
\* in the opposite order (flip = 1)
SynthRecord(i, n, flip) ==
    LET k == IF flip = 0 THEN i ELSE n + 1 - i
        name == <<Fa, FbUp, Fc>>[(k % 3) + 1]
        size_b == (MaxExportLen + 2 - k) * 65536
    IN  ScanResult(k, IF k % 2 = 0 THEN <<>> ELSE <<Nsub>>, name, size_b,
                   _human_mb(size_b),
                   Str(Path(TRUE, <<Nsrv, Ndocs>> \o (IF k % 2 = 0 THEN <<>> ELSE <<Nsub>>)
                                   \o <<name>>)),
                   StrfTime(k))

SynthResults(n, flip) == [i \in 1..n |-> SynthRecord(i, n, flip)]

ExportInit ==
    /\ tree = Nodes /\ noList = {} /\ noType = {}
    /\ rootArg = DocsPath /\ depthArg = 0
    /\ ScanIdle /\ AppIdle
    /\ xpc = "idle" /\ wb = <<>> /\ xerr = "none" /\ exports = 0
    /\ \E n \in 0..MaxExportLen, flip \in {0, 1}, d \in {0, DefaultDepth} :
         xargs = [root |-> DocsPath, depth |-> d, results |-> SynthResults(n, flip)]
    /\ disk \in {NoFile, OldFile}
    /\ diskBefore = disk

ExportNext ==
    ExportCall \/ SaveOpenFails \/ SaveOpen \/ SaveWrite \/ SaveWriteFails \/ SaveClose

ExportSpec == ExportInit /\ [][ExportNext]_vars

(***************************************************************************)
(* The App: its handlers, and direct calls of scan_pdfs, on one tree       *)
(***************************************************************************)
AppInit ==
    /\ tree = {1, 2, 3, 5, 7, 8}
    /\ noList \in {{}, {7}}
    /\ noType = {}
    /\ rootArg = DocsPath
    /\ depthArg = 1
    /\ ScanIdle /\ ExportIdle /\ AppIdle

AppNext ==
    \/ EditRootDir \/ pick_dir \/ EditDepth
    \/ RunScanMissing \/ RunScanInvalid \/ RunScanStart \/ RunScanReturn \/ RunScanFailed
    \/ ExportNoData \/ ExportCancelled \/ ExportExcelStart \/ ExportExcelDone
    \/ ExportExcelFailed
    \/ SaveOpenFails \/ SaveOpen \/ SaveWrite \/ SaveWriteFails \/ SaveClose
    \/ ScanCallInvalid \/ ListOk \/ ListSkipped \/ ListRaised \/ Vanish

AppSpec == AppInit /\ [][AppNext]_vars

\* The scan button alone, with the edits of the fields and the direct calls
RunScanNext ==
    \/ EditRootDir \/ pick_dir \/ EditDepth
    \/ RunScanMissing \/ RunScanInvalid \/ RunScanStart \/ RunScanReturn \/ RunScanFailed
    \/ ScanCallInvalid \/ ListOk \/ ListSkipped \/ ListRaised \/ Vanish

RunScanSpec == AppInit /\ [][RunScanNext]_vars


(***************************************************************************)
(* What the claims say                                                     *)
(***************************************************************************)
Max(a, b) == IF a > b THEN a ELSE b
Min(a, b) == IF a < b THEN a ELSE b

\* the directory the scan was called on
RootNode == Lookup(rootArg, tree)

\* how many real directory levels n lies below the root of the scan
Level(n) == Cardinality(Ancestors(n)) - Cardinality(Ancestors(RootNode))

\* the name ends in ".pdf", whatever the case of the letters
EndsPdfAnyCase(name) ==
    LET l == Len(name)
    IN  /\ l >= 4
        /\ name[l - 3] = "."
        /\ name[l - 2] \in {"p", "P"}
        /\ name[l - 1] \in {"d", "D"}
        /\ name[l] \in {"f", "F"}

\* the regular files below the root that are named *.pdf
PdfFiles ==
    {f \in tree : /\ FS[f].kind = "file"
                  /\ EndsPdfAnyCase(FS[f].name)
                  /\ RootNode \in Ancestors(f)}

RealPath(n) == Str(Path(TRUE, PartsOf(n)))
Reported(f) == \E i \in 1..Len(results) : results[i].full_path = RealPath(f)
NoErrors == failedDirs = {} /\ dropped = {} /\ noType = {}

\* C1: when a scan returns and no listing, typing or stat failed, the records
\* are exactly the regular files named *.pdf (in any case) whose directory
\* lies at most max(depth, 0) real directory levels below the root, each once;
\* so a negative depth gives what depth 0 gives.
C1_DepthBound ==
    (pc = "done" /\ validAtCall /\ NoErrors) =>
        LET expected == {f \in PdfFiles : Level(FS[f].parent) <= Max(depthArg, 0)}
        IN  /\ Len(results) = Cardinality(expected)
            /\ \A f \in PdfFiles : Reported(f) <=> f \in expected
            /\ \A i \in 1..Len(results) :
                 \E f \in expected : results[i].full_path = RealPath(f)

\* a scan of depth 1 returned a file one level down and left out one two
\* levels down
C1_Witness ==
    /\ pc = "done" /\ validAtCall /\ NoErrors
    /\ depthArg = 1
    /\ \E f, g \in PdfFiles :
         /\ Level(FS[f].parent) = 1 /\ Reported(f)
         /\ Level(FS[g].parent) = 2 /\ ~Reported(g)

\* C2: in every list a scan returns the index values are 1..N in list order,
\* and of two consecutive records the earlier is larger, or as large with a
\* lower-cased name that is not greater.
C2_RankedAndOrdered ==
    pc = "done" =>
        /\ \A i \in 1..Len(results) : results[i].index = i
        /\ \A i \in 1..(Len(results) - 1) :
             LET a == results[i]
                 b == results[i + 1]
             IN  \/ a.size_bytes > b.size_bytes
                 \/ /\ a.size_bytes = b.size_bytes
                    /\ ~StrLess(StrLower(b.filename), StrLower(a.filename))

\* a scan returned three records or more, two of them of one size, after a
\* path was dropped because its stat failed
C2_Witness ==
    /\ pc = "done"
    /\ dropped # {}
    /\ Len(results) >= 3
    /\ \E i \in 1..(Len(results) - 1) :
         results[i].size_bytes = results[i + 1].size_bytes

\* the directories between f and the root of the scan, f's own included
DirsAbove(f) == {a \in Ancestors(FS[f].parent) : RootNode \in Ancestors(a)}

\* C3: the listing of a directory below the root that fails, by permission or
\* because the directory vanished after it was queued, never makes the scan
\* raise; and the scan that returns has reported every matching file within
\* the depth whose directories could all be listed.
C3_ListingFailureSkipped ==
    /\ (validAtCall /\ failedDirs \ {root} # {}) => pc # "raised"
    /\ (pc = "done" /\ validAtCall) =>
         \A f \in PdfFiles :
            ( /\ Level(FS[f].parent) <= Max(depthArg, 0)
              /\ DirsAbove(f) \cap noList = {}
              /\ (DirsAbove(f) \cup {f}) \cap noType = {} )
            => Reported(f)

\* C5: rel_dir of every record is the directory of the file relative to the
\* resolved root of the scan, and empty exactly for a file in the root itself.
C5_RelDirFromResolvedRoot ==
    (pc = "done" /\ validAtCall) =>
        \A i \in 1..Len(results) :
            LET whole == Tail(results[i].full_path)
                dir == SubSeq(whole, 1, Len(whole) - 1)
            IN  /\ results[i].rel_dir = SubSeq(dir, Len(root.parts) + 1, Len(dir))
                /\ results[i].rel_dir = <<>> <=> dir = root.parts

Shown(rs) ==
    [i \in 1..Len(rs) |-> <<rs[i].index, rs[i].rel_dir, rs[i].filename, rs[i].size_bytes>>]

\* C6: a second scan of the unchanged tree, with the same root and depth,
\* returns the same sequence of (index, rel_dir, filename, size_bytes).
C6_SameTwice ==
    (pc = "done" /\ run >= 2 /\ vanished = 0) => Shown(results) = Shown(prev)

\* C7: scan_pdfs called on a root that does not exist or is no directory
\* raises, having listed nothing and collected nothing; a click on the scan
\* button with such a root is answered by a warning or an error and starts no
\* scan, and _results is only ever replaced by what a scan of a directory
\* returned.
C7_InvalidRootRefused ==
    /\ []((run >= 1 /\ ~validAtCall) =>
            /\ pc \in {"walking", "raised"}
            /\ pc = "walking" => stack = <<[path |-> root, d |-> 0]>>
            /\ pc = "raised" => err \in {"FileNotFoundError", "NotADirectoryError"}
            /\ listed = NoCounts
            /\ results = <<>>)
    /\ []((clicked.op = "run_scan" /\ ~clicked.named_dir) =>
            /\ handler = "none"
            /\ msg \in {"showwarning: no directory", "showerror: invalid directory"})
    /\ [][(handler = "none" /\ handler' = "run_scan") => validAtCall']_vars
    /\ [][_results' # _results =>
            (handler = "run_scan" /\ pc = "done" /\ validAtCall /\ _results' = results)]_vars

\* a direct call on an invalid root has raised, and a click on the scan button
\* with a path that names a file was answered by an error while a list was
\* held
C7_Witness ==
    /\ run >= 1 /\ ~validAtCall /\ pc = "raised"
    /\ clicked.op = "run_scan" /\ ~clicked.named_dir /\ Strip(clicked.root_dir) # <<>>
    /\ msg = "showerror: invalid directory"
    /\ _results # <<>>

\* C9: no directory is listed twice, none is listed through a link, and the
\* walk ends: the stack empties and the scan returns, unless an error nothing
\* catches ends the scan first.
C9_NoRevisitAndTerminates ==
    /\ [](\A n \in Nodes : listed[n] <= 1)
    /\ [](listedVia = {})
    /\ (pc = "walking") ~> ((pc = "done" /\ stack = <<>>) \/ pc = "raised")

\* a scan returned on a tree with a link back to the root and two links that
\* point at each other's directory, having listed the directories that hold
\* them
C9_Witness ==
    /\ pc = "done"
    /\ {9, 15, 17} \subseteq tree
    /\ listed[7] = 1 /\ listed[10] = 1 /\ listed[13] = 1 /\ listed[3] = 1

\* C4: when the save fails, the target holds what it held before the call,
\* and the failure is raised.
C4_FailedSaveLeavesTarget ==
    xpc = "failed" => (disk = diskBefore /\ xerr # "none")

\* C8: the excerpt of the summary sheet has min(20, N) rows, the i-th numbered
\* i and showing the i-th record of the detail sheet; the detail sheet has one
\* row per record, in the order of the list.
C8_TopExcerpt ==
    xpc \in {"built", "writing", "saved", "failed"} =>
        LET rs == xargs.results
            n == Len(rs)
            detail == wb[1].rows
            summary == wb[2].rows
            above == Len(SummaryHead(xargs.root, xargs.depth, rs))
        IN  /\ Len(summary) = above + Min(20, n)
            /\ \A i \in 1..Min(20, n) :
                 /\ summary[above + i] = <<i, rs[i].filename, rs[i].size_mb, rs[i].rel_dir>>
                 /\ summary[above + i][2] = detail[1 + i][3]
                 /\ summary[above + i][3] = detail[1 + i][5]
                 /\ summary[above + i][4] = detail[1 + i][2]
            /\ Len(detail) = 1 + n
            /\ \A i \in 1..n : detail[1 + i] = DetailRow(rs[i])
            /\ xpc = "saved" => disk.sheets = wb

\* a report of more than twenty records was saved
C8_Witness ==
    /\ xpc = "saved"
    /\ Len(xargs.results) > 20
    /\ Len(wb[2].rows) = Len(SummaryHead(xargs.root, xargs.depth, xargs.results)) + 20

\* C10: the root and the depth export_excel writes into the summary sheet are
\* those given to the scan that produced the records it exports.
C10_ReportNamesTheScan ==
    (handler = "export_excel" /\ xpc # "idle") =>
        /\ wb[2].rows[1][2] = Str(Resolve(scanOf.root, tree))
        /\ wb[2].rows[2][2] = scanOf.depth

=============================================================================
